---- MODULE Spec2Model ----
\* A model of MuminDataset.compile() (src/mumin/dataset.py) and of the article
\* worker process_article_url (src/src/mumin/article.py).
\*
\* A pandas DataFrame is a record [columns, rows]: `columns` is the set of
\* column names, `rows` the sequence of row records.  Every row carries its
\* pandas index label in the field `index`; a row's POSITION is its place in
\* the sequence minus one (pandas positions are 0-based).  Labels and positions
\* agree only for a table with a fresh RangeIndex.
\*
\* Every scalar cell is an integer: natural keys (tweet ids, claim ids, tags,
\* URLs, ...) are integers >= 100, relevance scores are hundredths (0.8 is 80),
\* and NA, pandas' NaN / None, is -1.
EXTENDS Integers, Sequences, FiniteSets, TLC

VARIABLES
    pc,        \* the stage compile() runs next, or "done" / "error"
    size,      \* self.size
    flags,     \* self.include_articles, include_images, ... (a record of booleans)
    archive,   \* the CSV files of self.dataset_dir, in iterdir() order: [stem, frame]
    twitter,   \* what the rehydration collaborator answers
    web,       \* what the article worker finds behind each URL
    nodes,     \* self.nodes: kind -> DataFrame
    rels,      \* self.rels: (src kind, label, tgt kind) -> DataFrame
    pool,      \* the enrichment pool: [todo, buffer]
    stages,    \* the stages compile() has run so far, in order
    calls      \* the tweet_ids lists rehydrate_tweets was called with, in order

vars == <<pc, size, flags, archive, twitter, calls, web, nodes, rels, pool, stages, calls>>

\* ------------------------------------------------------------------ bounds

\* The archive's relation files hold at most this many rows in total.
MaxArchiveEdges == 3

\* ------------------------------------------------------------------ values

\* NaN / None
NA == -1

TweetIds == {101, 102}
ClaimIds == {201, 202}
ArticleIds == {301}
UserIds == {401, 402}
Relevances == {75, 80, 85}

TDC == <<"tweet", "discusses", "claim">>
ADC == <<"article", "discusses", "claim">>
UPT == <<"user", "posted", "tweet">>
TMU == <<"tweet", "mentions", "user">>
UMU == <<"user", "mentions", "user">>
UHPT == <<"user", "has_pinned", "tweet">>
TLP == <<"tweet", "located_in", "place">>
THP == <<"tweet", "has_poll", "poll">>
THI == <<"tweet", "has_image", "image">>
THH == <<"tweet", "has_hashtag", "hashtag">>
UHH == <<"user", "has_hashtag", "hashtag">>
THU == <<"tweet", "has_url", "url">>
UHU == <<"user", "has_url", "url">>
UHPU == <<"user", "has_profile_picture_url", "url">>
UHP == <<"user", "has_profile_picture", "image">>
AHTU == <<"article", "has_top_image_url", "url">>
AHT == <<"article", "has_top_image", "image">>
THA == <<"tweet", "has_article", "article">>

\* ------------------------------------------------------------------ pandas

Range(s) == {s[i] : i \in DOMAIN s}

DataFrame(cs, rs) == [columns |-> cs, rows |-> rs]

\* dict assignment d[k] = v
Put(d, k, v) == [x \in DOMAIN d \cup {k} |-> IF x = k THEN v ELSE d[x]]

\* dict.pop(k) for every k in ks
Drop(d, ks) == [x \in DOMAIN d \ ks |-> d[x]]

\* a fresh RangeIndex: row i (1-based here) gets label i - 1
ResetIndex(rs) == [i \in DOMAIN rs |-> [rs[i] EXCEPT !.index = i - 1]]

\* pd.DataFrame(dict(src=..., tgt=...)) from a list of <<src, tgt>> pairs
PairFrame(ps) ==
    DataFrame({"src", "tgt"},
              [i \in DOMAIN ps |-> [index |-> i - 1, src |-> ps[i][1], tgt |-> ps[i][2]]])

\* the concatenation of a sequence of sequences
RECURSIVE Flatten(_)
Flatten(ss) == IF ss = <<>> THEN <<>> ELSE Head(ss) \o Flatten(Tail(ss))

\* ------------------------------------------------------------------ archive

\* The rows a relation file of the archive may hold: src and tgt are NATURAL
\* keys there (tweet_id, claim id, user_id), as _shrink_dataset reads them.
EdgeUniverse ==
    {[rel |-> TDC, src |-> t, tgt |-> c, relevance |-> r] :
        t \in TweetIds, c \in ClaimIds, r \in Relevances}
    \cup {[rel |-> ADC, src |-> a, tgt |-> 201, relevance |-> r] :
        a \in ArticleIds, r \in Relevances}
    \cup {[rel |-> UPT, src |-> u, tgt |-> t, relevance |-> NA] :
        u \in UserIds, t \in TweetIds}
    \cup {[rel |-> TMU, src |-> t, tgt |-> u, relevance |-> NA] :
        t \in TweetIds, u \in UserIds}
    \cup {[rel |-> UMU, src |-> p[1], tgt |-> p[2], relevance |-> NA] :
        p \in {q \in UserIds \X UserIds : q[1] # q[2]}}

RECURSIVE SubsetsUpTo(_, _)
SubsetsUpTo(S, k) ==
    IF k = 0 THEN {{}}
    ELSE LET smaller == SubsetsUpTo(S, k - 1)
         IN  smaller \cup {T \cup {x} : T \in smaller, x \in S}

EdgeRank(e) == (e.src * 1000 + e.tgt) * 100 + (IF e.relevance = NA THEN 0 ELSE e.relevance)

\* the rows of a set of edges in file order (ascending src, tgt, relevance)
RECURSIVE SortedEdges(_)
SortedEdges(S) ==
    IF S = {} THEN <<>>
    ELSE LET m == CHOOSE e \in S : \A f \in S : EdgeRank(e) <= EdgeRank(f)
         IN  <<m>> \o SortedEdges(S \ {m})

\* pd.read_csv of a relation file: a fresh RangeIndex
RelFile(S, rel) ==
    LET es == SortedEdges({e \in S : e.rel = rel})
    IN  IF rel \in {TDC, ADC}
        THEN DataFrame({"src", "tgt", "relevance"},
                       [i \in DOMAIN es |-> [index |-> i - 1, src |-> es[i].src,
                                             tgt |-> es[i].tgt,
                                             relevance |-> es[i].relevance]])
        ELSE DataFrame({"src", "tgt"},
                       [i \in DOMAIN es |-> [index |-> i - 1, src |-> es[i].src,
                                             tgt |-> es[i].tgt]])

\* pd.read_csv of an entity file holding the keys ks under column `col`
TweetFile(ks) ==
    DataFrame({"tweet_id"}, [i \in DOMAIN ks |-> [index |-> i - 1, tweet_id |-> ks[i]]])
ClaimFile(ks) ==
    DataFrame({"id"}, [i \in DOMAIN ks |-> [index |-> i - 1, id |-> ks[i]]])
\* an article of the archive has an id and a URL
ArticleFile(ks) ==
    DataFrame({"id", "url"},
              [i \in DOMAIN ks |-> [index |-> i - 1, id |-> ks[i], url |-> ks[i] + 309]])
UserFile(ks) ==
    DataFrame({"user_id"}, [i \in DOMAIN ks |-> [index |-> i - 1, user_id |-> ks[i]]])

\* A file name without its suffix is a sequence of symbols: "_" is the
\* underscore, any other symbol a run of characters without underscore.
File(stem, frame) == [stem |-> stem, frame |-> frame]

\* the tweet file of a dataset compiled before: it has the hydrated columns
HydratedTweetFile(ks) ==
    DataFrame({"tweet_id", "text", "author_id"},
              [i \in DOMAIN ks |-> [index |-> i - 1, tweet_id |-> ks[i], author_id |-> 401]])

\* the name of the file of a relation whose label is one word
RelStem(rel) == <<rel[1], "_", rel[2], "_", rel[3]>>

\* the dataset directory with the relation rows S
Archive(S) ==
    <<File(<<"tweet">>, TweetFile(<<101, 102, 103>>)),
      File(<<"claim">>, ClaimFile(<<201, 202>>)),
      File(<<"article">>, ArticleFile(<<301>>)),
      File(<<"user">>, UserFile(<<401, 402>>)),
      File(RelStem(TDC), RelFile(S, TDC)),
      File(RelStem(ADC), RelFile(S, ADC)),
      File(RelStem(UPT), RelFile(S, UPT)),
      File(RelStem(TMU), RelFile(S, TMU)),
      File(RelStem(UMU), RelFile(S, UMU))>>

\* ------------------------------------------------------------------ _load_dataset

\* tweet_df[tweet_df.tweet_id.duplicated()].tweet_id.tolist()
Duplicated(ks) == SelectSeq([i \in DOMAIN ks |->
                                IF \E j \in 1..(i - 1) : ks[j] = ks[i] THEN ks[i] ELSE NA],
                            LAMBDA k : k # NA)

Column(df, c) == [i \in DOMAIN df.rows |-> df.rows[i][c]]

\* fname.split('_'): the tokens between the underscores, as strings
RECURSIVE Split(_)
Split(stem) ==
    IF stem = <<>> THEN <<"">>
    ELSE LET rest == Split(Tail(stem))
         IN  IF Head(stem) = "_" THEN <<"">> \o rest
             ELSE <<Head(stem) \o Head(rest)>> \o Tail(rest)

\* '_'.join(tokens)
RECURSIVE Join(_)
Join(tokens) ==
    IF tokens = <<>> THEN ""
    ELSE IF Len(tokens) = 1 THEN tokens[1]
    ELSE tokens[1] \o "_" \o Join(Tail(tokens))

LoadFileTwoTokens(acc, f) ==
    LET splits == Split(f.stem)
        n == Len(splits)
    IN  IF n = 1 THEN [acc EXCEPT !.nodes = Put(acc.nodes, splits[1], f.frame)]
        ELSE [acc EXCEPT !.rels = Put(acc.rels,
                                      <<splits[1], Join(SubSeq(splits, 2, n - 1)), splits[n]>>,
                                      f.frame)]

\* one turn of the loop over csv_paths, on the tables read so far
LoadFile(acc, f) ==
    LET splits == Split(f.stem)
        n == Len(splits)
    IN  IF n = 1 THEN [acc EXCEPT !.nodes = Put(acc.nodes, splits[1], f.frame)]
        ELSE IF n > 2
        THEN [acc EXCEPT !.rels = Put(acc.rels,
                                      <<splits[1], Join(SubSeq(splits, 2, n - 1)), splits[n]>>,
                                      f.frame)]
        ELSE [acc EXCEPT !.ok = FALSE]

\* the loop over csv_paths: it stops at the first name it cannot recognise
RECURSIVE LoadFiles(_, _)
LoadFiles(acc, files) ==
    IF files = <<>> \/ ~acc.ok THEN acc
    ELSE LoadFiles(LoadFile(acc, Head(files)), Tail(files))

LoadFailsNoDuplicates(n) ==
    \/ "claim" \notin DOMAIN n
    \/ "tweet" \notin DOMAIN n

\* the checks that end _load_dataset, on the entity tables read
LoadFails(n) ==
    \/ "claim" \notin DOMAIN n
    \/ "tweet" \notin DOMAIN n
    \/ Duplicated(Column(n["tweet"], "tweet_id")) # <<>>

\* _load_dataset on empty tables: [ok, nodes, rels]
LoadDatasetFrom(files) ==
    LET read == LoadFiles([ok |-> TRUE, nodes |-> << >>, rels |-> << >>], files)
    IN  IF read.ok /\ LoadFails(read.nodes) THEN [read EXCEPT !.ok = FALSE] ELSE read

\* ------------------------------------------------------------------ _shrink_dataset

ThresholdSwapped(sz) == IF sz = "small" THEN 75 ELSE 80

\* the relevance threshold of a size preset, in hundredths
Threshold(sz) == IF sz = "small" THEN 80 ELSE 75

QueryAtLeast(df, t) ==
    LET keep(r) == r.relevance >= t
    IN  DataFrame(df.columns, SelectSeq(df.rows, keep))

\* df.query(f'relevance > {threshold}')
QueryRelevance(df, t) ==
    LET keep(r) == r.relevance > t
    IN  DataFrame(df.columns, SelectSeq(df.rows, keep))

\* df[df[c].isin(values)]: a boolean mask keeps the index labels
WhereIsin(df, c, values) ==
    LET keep(r) == r[c] \in values
    IN  DataFrame(df.columns, SelectSeq(df.rows, keep))

FilterUsersBoth(user_df, posted_rel, mentions_rel) ==
    LET keep(r) == /\ r.user_id \in Range(Column(posted_rel, "src"))
                   /\ r.user_id \in Range(Column(mentions_rel, "tgt"))
    IN  DataFrame(user_df.columns, SelectSeq(user_df.rows, keep))

\* user_df[has_posted | was_mentioned]
FilterUsers(user_df, posted_rel, mentions_rel) ==
    LET keep(r) == \/ r.user_id \in Range(Column(posted_rel, "src"))
                   \/ r.user_id \in Range(Column(mentions_rel, "tgt"))
    IN  DataFrame(user_df.columns, SelectSeq(user_df.rows, keep))

ShrinkNeeds(n, r) ==
    /\ {"tweet", "claim", "article", "user"} \subseteq DOMAIN n
    /\ {TDC, ADC, UPT, TMU, UMU} \subseteq DOMAIN r

ShrinkStaleTweets(n, r, sz) ==
    IF sz = "small" \/ sz = "medium"
    THEN LET threshold == Threshold(sz)
             discusses == QueryRelevance(r[TDC], threshold)
             tweet_df == WhereIsin(n["tweet"], "tweet_id", Range(Column(discusses, "src")))
             claim_df == WhereIsin(n["claim"], "id", Range(Column(discusses, "tgt")))
             adiscusses == QueryRelevance(r[ADC], threshold)
             article_df == WhereIsin(n["article"], "id", Range(Column(adiscusses, "src")))
             posted == WhereIsin(r[UPT], "tgt", Range(Column(n["tweet"], "tweet_id")))
             mentions == WhereIsin(r[TMU], "src", Range(Column(n["tweet"], "tweet_id")))
             user_df == FilterUsers(n["user"], posted, mentions)
             ukeys == Range(Column(user_df, "user_id"))
             umentions == WhereIsin(WhereIsin(r[UMU], "src", ukeys), "tgt", ukeys)
         IN  [nodes |-> [k \in DOMAIN n |->
                            CASE k = "tweet" -> tweet_df
                              [] k = "claim" -> claim_df
                              [] k = "article" -> article_df
                              [] k = "user" -> user_df
                              [] OTHER -> n[k]],
              rels |-> [k \in DOMAIN r |->
                            CASE k = TDC -> discusses
                              [] k = ADC -> adiscusses
                              [] k = UPT -> posted
                              [] k = TMU -> mentions
                              [] k = UMU -> umentions
                              [] OTHER -> r[k]]]
    ELSE [nodes |-> n, rels |-> r]

\* the filter applied under every size but 'large'
ShrinkUnlessLarge(n, r, sz) ==
    IF sz = "large" THEN [nodes |-> n, rels |-> r]
    ELSE ShrinkStaleTweets(n, r, IF sz = "small" THEN "small" ELSE "medium")

\* _shrink_dataset on the tables n, r: the tables it leaves
ShrinkDataset(n, r, sz) ==
    IF sz = "small" \/ sz = "medium"
    THEN LET threshold == Threshold(sz)
             discusses == QueryRelevance(r[TDC], threshold)
             tweet_df == WhereIsin(n["tweet"], "tweet_id", Range(Column(discusses, "src")))
             claim_df == WhereIsin(n["claim"], "id", Range(Column(discusses, "tgt")))
             adiscusses == QueryRelevance(r[ADC], threshold)
             article_df == WhereIsin(n["article"], "id", Range(Column(adiscusses, "src")))
             posted == WhereIsin(r[UPT], "tgt", Range(Column(tweet_df, "tweet_id")))
             mentions == WhereIsin(r[TMU], "src", Range(Column(tweet_df, "tweet_id")))
             user_df == FilterUsers(n["user"], posted, mentions)
             ukeys == Range(Column(user_df, "user_id"))
             umentions == WhereIsin(WhereIsin(r[UMU], "src", ukeys), "tgt", ukeys)
         IN  [nodes |-> [k \in DOMAIN n |->
                            CASE k = "tweet" -> tweet_df
                              [] k = "claim" -> claim_df
                              [] k = "article" -> article_df
                              [] k = "user" -> user_df
                              [] OTHER -> n[k]],
              rels |-> [k \in DOMAIN r |->
                            CASE k = TDC -> discusses
                              [] k = ADC -> adiscusses
                              [] k = UPT -> posted
                              [] k = TMU -> mentions
                              [] k = UMU -> umentions
                              [] OTHER -> r[k]]]
    ELSE [nodes |-> n, rels |-> r]

\* ------------------------------------------------------------------ twitter

\* A list-valued cell: NaN (the field is absent from the tweet's JSON) or a list.
NaList == [na |-> TRUE, items |-> <<>>]
List(items) == [na |-> FALSE, items |-> items]

\* Row fields and the pandas columns they stand for:
\*   tweet: author_id, mentions = entities.mentions, hashtags = entities.hashtags,
\*          urls = entities.urls, media_keys = attachments.media_keys,
\*          place_id = geo.place_id, poll_ids = attachments.poll_ids
\*   user:  username, desc_mentions = entities.description.mentions,
\*          pinned_tweet_id, desc_hashtags = entities.description.hashtags,
\*          url_urls = entities.url.urls, desc_urls = entities.description.urls,
\*          profile_image_url
BaseTweet(id) ==
    [index |-> 0, tweet_id |-> id, author_id |-> 401, mentions |-> NaList,
     hashtags |-> NaList, urls |-> NaList, media_keys |-> NaList,
     place_id |-> NA, poll_ids |-> NaList]

BaseUser(id) ==
    [index |-> 0, user_id |-> id, username |-> id + 50, desc_mentions |-> NaList,
     pinned_tweet_id |-> NA, desc_hashtags |-> NaList, url_urls |-> NaList,
     desc_urls |-> NaList, profile_image_url |-> NA]

\* a media object of the API: a photo carries url, a video or an animated gif
\* carries preview_image_url (and a video duration_ms and a view count)
Media(key, type, url) ==
    [index |-> 0, media_key |-> key, type |-> type,
     url |-> (IF type = "photo" THEN url ELSE NA),
     preview_image_url |-> (IF type = "photo" THEN NA ELSE url)]

\* the columns json_normalize gives a media table: a column exists when at
\* least one row carries the field
MediaColumns(ms) ==
    {"media_key", "type"}
    \cup (IF \E i \in DOMAIN ms : ms[i].type = "photo" THEN {"url"} ELSE {})
    \cup (IF \E i \in DOMAIN ms : ms[i].type # "photo" THEN {"preview_image_url"} ELSE {})
    \cup (IF \E i \in DOMAIN ms : ms[i].type = "video"
          THEN {"duration_ms", "public_metrics.view_count"} ELSE {})

BaseTweetColumns == {"tweet_id", "text", "author_id"}
BaseUserColumns == {"user_id", "username"}

BaseWorld ==
    [tweets |-> <<BaseTweet(101), BaseTweet(102), BaseTweet(103)>>,
     tweet_columns |-> BaseTweetColumns,
     users |-> <<BaseUser(401), BaseUser(402)>>, user_columns |-> BaseUserColumns,
     media |-> <<>>, polls |-> <<>>, places |-> <<>>]

\* Twitter.rehydrate_tweets(tweet_ids): the tweets asked for that still exist,
\* with the users, media, polls and places the API includes; every table
\* comes with a fresh RangeIndex.
RehydrateTweets(tw, tweet_ids) ==
    LET asked(t) == t.tweet_id \in Range(tweet_ids)
    IN  [tweets |-> DataFrame(tw.tweet_columns, ResetIndex(SelectSeq(tw.tweets, asked))),
         users |-> DataFrame(tw.user_columns, ResetIndex(tw.users)),
         media |-> DataFrame(MediaColumns(tw.media), ResetIndex(tw.media)),
         polls |-> DataFrame({"poll_id", "options"}, ResetIndex(tw.polls)),
         places |-> DataFrame({"place_id", "geo.bbox"}, ResetIndex(tw.places))]

\* ------------------------------------------------------------------ _rehydrate

\* media.query(video_query).drop(columns=[...]).rename(preview_image_url -> url)
VideoFrame(media) ==
    LET video(m) == m.type = "video" \/ m.type = "animated gif"
        renamed(m) == [m EXCEPT !.url = m.preview_image_url, !.preview_image_url = NA]
        vs == SelectSeq(media.rows, video)
    IN  DataFrame((media.columns \ {"duration_ms", "public_metrics.view_count",
                                    "preview_image_url"}) \cup {"url"},
                  [i \in DOMAIN vs |-> renamed(vs[i])])

\* media.query('type == "photo"').append(video_df): append keeps both frames'
\* index labels
ImageFrame(media) ==
    LET photo(m) == m.type = "photo"
    IN  DataFrame(media.columns \cup {"url"},
                  SelectSeq(media.rows, photo) \o VideoFrame(media).rows)

\* drop(columns=[...]) raises KeyError for a column the frame does not have
VideoDropFails(media) ==
    ~({"url", "duration_ms", "public_metrics.view_count"} \subseteq media.columns)

\* the branch of _rehydrate that asks Twitter: [ok, nodes, asked]
Hydrate(n, fl, tw) ==
    LET tweet_ids == Column(n["tweet"], "tweet_id")
        tweet_dfs == RehydrateTweets(tw, tweet_ids)
        n1 == Put(Put(n, "tweet", tweet_dfs.tweets), "user", tweet_dfs.users)
        images == fl.images /\ Len(tweet_dfs.media.rows) > 0
        n2 == IF images /\ ~VideoDropFails(tweet_dfs.media)
              THEN Put(n1, "image", ImageFrame(tweet_dfs.media)) ELSE n1
        n3 == IF fl.polls /\ Len(tweet_dfs.polls.rows) > 0
              THEN Put(n2, "poll", tweet_dfs.polls) ELSE n2
        n4 == IF fl.places /\ Len(tweet_dfs.places.rows) > 0
              THEN Put(n3, "place", tweet_dfs.places) ELSE n3
    IN  IF images /\ VideoDropFails(tweet_dfs.media)
        THEN [ok |-> FALSE, nodes |-> n1, asked |-> <<tweet_ids>>]
        ELSE [ok |-> TRUE, nodes |-> n4, asked |-> <<tweet_ids>>]

RehydrateAlways(n, fl, tw) ==
    IF "tweet" \notin DOMAIN n THEN [ok |-> FALSE, nodes |-> n, asked |-> <<>>]
    ELSE Hydrate(n, fl, tw)

\* _rehydrate on the tables n: [ok, nodes, asked]; asked lists the calls of
\* rehydrate_tweets it made
Rehydrate(n, fl, tw) ==
    IF "tweet" \notin DOMAIN n THEN [ok |-> FALSE, nodes |-> n, asked |-> <<>>]
    ELSE IF "text" \in n["tweet"].columns THEN [ok |-> TRUE, nodes |-> n, asked |-> <<>>]
    ELSE Hydrate(n, fl, tw)

\* ------------------------------------------------------------------ _extract_nodes

\* dct.get('tag')
ExtractHashtag(dct) == dct.tag

\* dct.get('expanded_url') or dct.get('url')
ExtractUrl(dct) == IF dct.expanded_url # NA THEN dct.expanded_url ELSE dct.url

Identity(x) == x

\* lambda dcts: [int(dct['id']) for dct in dcts] (_extract_relations)
ExtractMention(dct) == dct.id

\* lambda dcts: [dct['username'] for dct in dcts] (_extract_relations)
ExtractUsername(dct) == dct.username

\* the function each list column is mapped through before it is exploded
ApplyMap(field, x) ==
    CASE field \in {"hashtags", "desc_hashtags"} -> ExtractHashtag(x)
      [] field \in {"urls", "url_urls", "desc_urls"} -> ExtractUrl(x)
      [] field = "mentions" -> ExtractMention(x)
      [] field = "desc_mentions" -> ExtractUsername(x)
      [] OTHER -> Identity(x)

\* df[[field]].dropna().applymap(extract).explode(field).reset_index():
\* one <<index label, value>> per list item, in row order; a row with a NaN
\* cell is dropped, a row with an empty list explodes to one NaN
Explode(df, field) ==
    LET cell(i) == df.rows[i][field]
        one(i) == IF cell(i).na THEN <<>>
                  ELSE IF cell(i).items = <<>> THEN << <<df.rows[i].index, NA>> >>
                  ELSE [j \in DOMAIN cell(i).items |->
                            <<df.rows[i].index, ApplyMap(field, cell(i).items[j])>>]
    IN  Flatten([i \in DOMAIN df.rows |-> one(i)])

\* df[[field]].dropna().reset_index() of a scalar column
Scalars(df, field) ==
    LET present(r) == r[field] # NA
        rs == SelectSeq(df.rows, present)
    IN  [i \in DOMAIN rs |-> <<rs[i].index, rs[i][field]>>]

Values(refs) == [i \in DOMAIN refs |-> refs[i][2]]

\* pd.DataFrame(dict(col=values)): one column, a fresh RangeIndex
KeyFrame(col, values) ==
    DataFrame({col}, [i \in DOMAIN values |->
                         [f \in {"index", col} |-> IF f = "index" THEN i - 1 ELSE values[i]]])

\* .drop_duplicates(): the first row of every value of `col` is kept
DropDuplicates(rs, col) ==
    LET idx == SelectSeq([i \in DOMAIN rs |-> i],
                         LAMBDA i : ~\E j \in 1..(i - 1) : rs[j][col] = rs[i][col])
    IN  [k \in DOMAIN idx |-> rs[idx[k]]]

\* node_df = pd.DataFrame(dict(col=values)); if kind in self.nodes:
\* node_df = self.nodes[kind].append(node_df).drop_duplicates().reset_index(drop=True);
\* self.nodes[kind] = node_df
AddKeys(n, kind, col, values) ==
    LET node_df == KeyFrame(col, values)
    IN  IF kind \in DOMAIN n
        THEN Put(n, kind, DataFrame(n[kind].columns \cup {col},
                     ResetIndex(DropDuplicates(n[kind].rows \o node_df.rows, col))))
        ELSE Put(n, kind, node_df)

AddColumns(n, kind, cs) ==
    Put(n, kind, DataFrame(n[kind].columns \cup cs, n[kind].rows))

\* _extract_nodes on the tables n: the tables it leaves
ExtractNodes(n, fl) ==
    LET tcols == n["tweet"].columns
        ucols == n["user"].columns
        h1 == IF fl.hashtags /\ "entities.hashtags" \in tcols
              THEN AddKeys(n, "hashtag", "tag",
                           Values(Explode(n["tweet"], "hashtags")))
              ELSE n
        h2 == IF fl.hashtags /\ "entities.description.hashtags" \in ucols
              THEN AddKeys(h1, "hashtag", "tag",
                           Values(Explode(n["user"], "desc_hashtags")))
              ELSE h1
        u1 == IF "entities.urls" \in tcols
              THEN AddKeys(h2, "url", "url", Values(Explode(n["tweet"], "urls")))
              ELSE h2
        u2 == IF "entities.url.urls" \in ucols
              THEN AddKeys(u1, "url", "url", Values(Explode(n["user"], "url_urls")))
              ELSE u1
        u3 == IF "entities.description.urls" \in ucols
              THEN AddKeys(u2, "url", "url", Values(Explode(n["user"], "desc_urls")))
              ELSE u2
        u4 == IF fl.images /\ "profile_image_url" \in ucols
              THEN AddKeys(u3, "url", "url", Values(Scalars(n["user"], "profile_image_url")))
              ELSE u3
        p1 == IF fl.places /\ "place" \in DOMAIN u4
              THEN AddColumns(u4, "place", {"lat", "lng"}) ELSE u4
        p2 == IF fl.polls /\ "poll" \in DOMAIN p1
              THEN AddColumns(p1, "poll", {"labels", "votes"}) ELSE p1
    IN  p2

\* ------------------------------------------------------------------ _extract_relations

\* left.merge(right, left_on=..., right_on=keycol): for every reference, in
\* order, one <<left label, right label>> per row of `right` whose key equals
\* the reference (an inner join; pandas matches NaN with NaN)
Merge(refs, right, keycol) ==
    LET match(ref) ==
            LET hit(r) == r[keycol] = ref[2]
                rs == SelectSeq(right.rows, hit)
            IN  [j \in DOMAIN rs |-> <<ref[1], rs[j].index>>]
    IN  Flatten([i \in DOMAIN refs |-> match(refs[i])])

Swap(ps) == [i \in DOMAIN ps |-> <<ps[i][2], ps[i][1]>>]


\* rel_df.append(pd.DataFrame(data_dict)): both frames' index labels are kept
AppendFrame(a, b) == DataFrame(a.columns \cup b.columns, a.rows \o b.rows)

\* the triple the user-to-url rows are stored under
UserUrlKey == THU

\* _extract_relations on the tables n and relations r: [ok, rels]; ok is
\* FALSE when a table or column the code indexes is missing (KeyError), and
\* rels then holds what was stored before the error
ExtractRelations(n, r, fl) ==
    LET tweet == n["tweet"]
        user == n["user"]
        tcols == tweet.columns
        ucols == user.columns
        fail(x) == [ok |-> FALSE, rels |-> x]
        has_url(x) ==
            IF (fl.articles \/ fl.images) /\ "entities.urls" \in tcols
            THEN Put(x, THU, PairFrame(Merge(Explode(tweet, "urls"),
                                             n["url"], "url")))
            ELSE x
        user_url(x) ==
            IF fl.images /\ ("entities.url.urls" \in ucols
                             \/ "entities.description.urls" \in ucols)
            THEN LET e == DataFrame({}, <<>>)
                     a == IF "entities.url.urls" \in ucols
                          THEN AppendFrame(e, PairFrame(Merge(
                                   Explode(user, "url_urls"), n["url"], "url")))
                          ELSE e
                     b == IF "entities.description.urls" \in ucols
                          THEN AppendFrame(a, PairFrame(Merge(
                                   Explode(user, "desc_urls"), n["url"], "url")))
                          ELSE a
                 IN  Put(x, UserUrlKey, b)
            ELSE x
        profile(x) ==
            IF fl.images /\ "profile_image_url" \in ucols
            THEN Put(x, UHPU, PairFrame(Merge(Scalars(user, "profile_image_url"),
                                              n["url"], "url")))
            ELSE x
        user_hashtag(x) ==
            IF fl.hashtags /\ "entities.description.hashtags" \in ucols
            THEN Put(x, UHH, PairFrame(Merge(Explode(user, "desc_hashtags"),
                                             n["hashtag"], "tag")))
            ELSE x
        tweet_hashtag(x) ==
            IF fl.hashtags /\ "entities.hashtags" \in tcols
            THEN Put(x, THH, PairFrame(Merge(Explode(tweet, "hashtags"),
                                             n["hashtag"], "tag")))
            ELSE x
        tail(x) == [ok |-> TRUE,
                    rels |-> profile(user_url(has_url(user_hashtag(tweet_hashtag(x)))))]
        image(x) ==
            IF fl.images /\ "attachments.media_keys" \in tcols
            THEN IF "image" \notin DOMAIN n THEN fail(x)
                 ELSE tail(Put(x, THI, PairFrame(Merge(
                          Explode(tweet, "media_keys"), n["image"], "media_key"))))
            ELSE tail(x)
        poll(x) ==
            IF fl.polls /\ "attachments.poll_ids" \in tcols
            THEN IF "poll" \notin DOMAIN n THEN fail(x)
                 ELSE image(Put(x, THP, PairFrame(Merge(
                          Explode(tweet, "poll_ids"), n["poll"], "poll_id"))))
            ELSE image(x)
        place(x) ==
            IF fl.places /\ "geo.place_id" \in tcols
            THEN IF "place" \notin DOMAIN n THEN fail(x)
                 ELSE poll(Put(x, TLP, PairFrame(Merge(
                          Scalars(tweet, "place_id"), n["place"], "place_id"))))
            ELSE poll(x)
        pinned(x) ==
            IF "pinned_tweet_id" \in ucols
            THEN place(Put(x, UHPT, PairFrame(Merge(
                     Scalars(user, "pinned_tweet_id"), tweet, "tweet_id"))))
            ELSE place(x)
        user_mentions(x) ==
            IF fl.mentions /\ "entities.description.mentions" \in ucols
            THEN pinned(Put(x, UMU, PairFrame(Merge(
                     Explode(user, "desc_mentions"), user, "username"))))
            ELSE pinned(x)
        mentions(x) ==
            IF fl.mentions /\ "entities.mentions" \in tcols
            THEN user_mentions(Put(x, TMU, PairFrame(Merge(
                     Explode(tweet, "mentions"), user, "user_id"))))
            ELSE user_mentions(x)
    IN  IF "author_id" \notin tcols THEN fail(r)
        ELSE mentions(Put(r, UPT, PairFrame(Swap(Merge(
                 Scalars(tweet, "author_id"), user, "user_id")))))

\* ------------------------------------------------------------------ article.py

\* URLs are integers.  600 + 10 * page + variant is a URL of an article page:
\*   variant 0  http://site/page
\*   variant 1  http://site/page/          (trailing slash)
\*   variant 2  http://site/page?q=1       (query string)
\*   variant 3  http://site/page?q=1/      (query string, trailing slash)
\*   variant 4  http://site/page?q="x"     (query string ending in a double quote)
\* 700 and up are URLs the non-article regex matches (.jpg, twitter, ...).
ArticleUrls == {600, 601, 602, 603, 604, 610}
ImageUrls == {700, 701}

\* re.search(non_article_regex, url) is not None
NonArticle(url) == url \in ImageUrls

\* re.sub(r'(\?.*"|\/$)', "", url): a trailing slash is removed; a query
\* string is removed only up to a double quote that follows it
StrippedUrl(url) ==
    IF url \notin ArticleUrls THEN url
    ELSE LET page == url - (url % 10)
             variant == url % 10
         IN  CASE variant = 1 -> page
               [] variant = 3 -> page + 2
               [] variant = 4 -> page
               [] OTHER -> url

\* process_article_url(url) returns: download() ends within the timeout or is
\* cut by it, and parse(), which runs under no timeout, ends.  w[u].hangs
\* names the call on u that never finishes by itself, if any.
Returns(url, w) ==
    LET article == w[StrippedUrl(url)]
    IN  article.fails \/ article.hangs # "parse"

\* process_article_url(url): <<>> for None, else <<the record>>.  w[u] says
\* what Article(u).download() and .parse() give: fails (an exception), hangs
\* (a download that never finishes ends in the timeout's exception), an
\* empty title, an empty text, the top image.
ProcessArticleUrl(url, w) ==
    LET stripped_url == StrippedUrl(url)
        article == w[stripped_url]
    IN  IF article.fails \/ article.hangs = "download" THEN <<>>
        ELSE IF article.title = NA THEN <<>>
        ELSE IF article.content = NA THEN <<>>
        ELSE << [url |-> stripped_url, title |-> article.title,
                 content |-> article.content, top_image_url |-> article.top_image] >>

\* process_image_url(url): <<>> for None, else <<the record>>
ProcessImageUrl(url, w) ==
    IF w[url].fails \/ ~w[url].raster THEN <<>>
    ELSE << [url |-> url, pixels |-> 1, height |-> 1, width |-> 1] >>

\* ------------------------------------------------------------------ _extract_articles

\* the URLs handed to the pool; the url table must exist and hold strings
ArticleCandidates(n) ==
    SelectSeq(Column(n["url"], "url"), LAMBDA u : ~NonArticle(u))

\* re.search on a NaN / None entry of the url table raises TypeError
CandidatesFail(n) ==
    \/ "url" \notin DOMAIN n
    \/ NA \in Range(Column(n["url"], "url"))

\* the article frame with a fresh RangeIndex in place of the URLs
ArticleFramePositional(buffer) ==
    DataFrame({"title", "content", "authors", "publish_date", "top_image_url"},
              [i \in DOMAIN buffer |->
                  [index |-> i - 1, title |-> buffer[i].title,
                   content |-> buffer[i].content,
                   top_image_url |-> buffer[i].top_image_url]])

\* pd.DataFrame(data_dict, index=article_urls) after data_dict.pop('url'):
\* the URLs are the index labels and no column is called url
ArticleFrame(buffer) ==
    DataFrame({"title", "content", "authors", "publish_date", "top_image_url"},
              [i \in DOMAIN buffer |->
                  [index |-> buffer[i].url, title |-> buffer[i].title,
                   content |-> buffer[i].content,
                   top_image_url |-> buffer[i].top_image_url]])

\* the part of _extract_articles after the pool has drained: [ok, nodes, rels]
MergeArticles(n, r, fl, buffer) ==
    IF buffer = <<>> THEN [ok |-> FALSE, nodes |-> n, rels |-> r]
    ELSE LET article_df == ArticleFrame(buffer)
             n1 == Put(n, "article", article_df)
             n2 == IF fl.images
                   THEN AddKeys(n1, "url", "url", Values(Scalars(article_df, "top_image_url")))
                   ELSE n1
             r1 == IF fl.images
                   THEN Put(r, AHTU, PairFrame(Merge(Scalars(article_df, "top_image_url"),
                                                     n2["url"], "url")))
                   ELSE r
         IN  \* self.nodes['article'][['url']] raises KeyError: the frame has
             \* no url column, so the has_article relation is never stored
             [ok |-> FALSE, nodes |-> n2, rels |-> r1]

\* ------------------------------------------------------------------ _extract_images

ImageCandidatesFail(n) ==
    \/ "url" \notin DOMAIN n
    \/ "article" \notin DOMAIN n
    \/ "url" \notin n["article"].columns
    \/ "image" \notin DOMAIN n
    \/ "url" \notin n["image"].columns

ImageCandidates(n) ==
    SelectSeq(Column(n["url"], "url"),
              LAMBDA u : u \notin Range(Column(n["article"], "url")))
    \o Column(n["image"], "url")

ImageFrameOf(buffer) ==
    DataFrame({"pixels", "height", "width"},
              [i \in DOMAIN buffer |->
                  [index |-> buffer[i].url, pixels |-> buffer[i].pixels,
                   height |-> buffer[i].height, width |-> buffer[i].width]])

\* the part of _extract_images after the pool has drained: [ok, nodes, rels]
MergeImages(n, r, buffer) ==
    IF buffer = <<>> THEN [ok |-> FALSE, nodes |-> n, rels |-> r]
    ELSE \* self.nodes['image'][['url']] raises KeyError, as for the articles
         [ok |-> FALSE, nodes |-> Put(n, "image", ImageFrameOf(buffer)), rels |-> r]

\* ------------------------------------------------------------------ projector

NodeDump == {"claim", "tweet", "user", "image", "article", "place", "hashtag", "poll"}

RelDump == {TDC, TMU, TLP, THI, THH, THA, THP, UPT, UMU, UHPT, UHH, UHP, AHT}

NodeFeats(kind) ==
    CASE kind = "claim" -> {"raw_verdict", "predicted_verdict", "reviewer", "date"}
      [] kind = "tweet" -> {"tweet_id", "text", "created_at", "lang", "source",
                            "public_metrics.retweet_count", "public_metrics.reply_count",
                            "public_metrics.quote_count"}
      [] kind = "user" -> {"user_id", "verified", "protected", "created_at", "username",
                           "description", "url", "name", "public_metrics.followers_count",
                           "public_metrics.following_count", "public_metrics.tweet_count",
                           "public_metrics.listed_count", "location"}
      [] kind = "image" -> {"url", "pixels", "width", "height"}
      [] kind = "article" -> {"url", "title", "content"}
      [] kind = "place" -> {"place_id", "name", "full_name", "country_code", "country",
                            "place_type", "lat", "lng"}
      [] kind = "hashtag" -> {"tag"}
      [] kind = "poll" -> {"poll_id", "labels", "votes", "end_datetime", "voting_status",
                           "duration_minutes"}
      [] OTHER -> {}

\* _filter_node_features: the columns kept per kind (the renaming of the
\* public_metrics columns changes no row); rows and index labels stay
FilterNodeFeatures(n) ==
    [k \in DOMAIN n |->
        IF k \in NodeDump THEN DataFrame(n[k].columns \cap NodeFeats(k), n[k].rows)
        ELSE n[k]]

\* _remove_auxilliaries
RemoveAuxNodes(n) == Drop(n, DOMAIN n \ NodeDump)
RemoveAuxRels(r) == Drop(r, DOMAIN r \ RelDump)

\* _dump_to_csv indexes every kind of _node_dump and every triple of _rel_dump
DumpFails(n, r) == ~(NodeDump \subseteq DOMAIN n /\ RelDump \subseteq DOMAIN r)

\* ------------------------------------------------------------------ compile()

CompileOrderFilterLate ==
    <<"load", "rehydrate", "extract_nodes", "extract_relations", "shrink",
      "extract_articles", "extract_images", "filter_node_features",
      "remove_auxilliaries", "dump_to_csv">>

\* the calls of compile(), after _download, in order
CompileOrder ==
    <<"load", "shrink", "rehydrate", "extract_nodes", "extract_relations",
      "extract_articles", "extract_images", "filter_node_features",
      "remove_auxilliaries", "dump_to_csv">>

\* the stage compile() runs when `stage` has returned
After(stage) ==
    LET i == CHOOSE j \in DOMAIN CompileOrder : CompileOrder[j] = stage
    IN  IF i = Len(CompileOrder) THEN "done" ELSE CompileOrder[i + 1]

Sizes == {"small", "medium", "large"}

NoFlags == [articles |-> FALSE, images |-> FALSE, hashtags |-> FALSE,
            mentions |-> FALSE, places |-> FALSE, polls |-> FALSE]

Empty == [x \in {} |-> NA]

NoPool == [urls |-> <<>>, todo |-> {}, buffer |-> <<>>]

Page(fails, title, content, top_image) ==
    [fails |-> fails, hangs |-> "no", title |-> title, content |-> content,
     top_image |-> top_image]

\* a page whose download, or whose parse, never finishes
HangingPage(call) == [Page(FALSE, 1, 1, NA) EXCEPT !.hangs = call]

\* every article page downloads and parses, no page has a top image; every
\* image URL gives a readable raster
BaseWeb ==
    [articles |-> [u \in ArticleUrls \cup ImageUrls |-> Page(FALSE, 1, 1, NA)],
     images |-> [u \in ArticleUrls \cup ImageUrls |-> [fails |-> FALSE, raster |-> TRUE]]]

\* ---- the inputs of compile(): a size preset, the flags, the archive, what
\* ---- Twitter answers and what the web serves.  Each family varies one part
\* ---- of the input and keeps the rest at its base value.

Scenario(sz, fl, a, tw, w) ==
    [size |-> sz, flags |-> fl, archive |-> a, twitter |-> tw, web |-> w]

\* the archive of the families that vary Twitter's answer: tweet 101 is
\* kept by every size, tweet 102 by medium and large, tweet 103 by large
BaseArchive ==
    Archive({[rel |-> TDC, src |-> 101, tgt |-> 201, relevance |-> 85],
             [rel |-> TDC, src |-> 102, tgt |-> 202, relevance |-> 80],
             [rel |-> TMU, src |-> 101, tgt |-> 402, relevance |-> NA]})

\* every archive of at most MaxArchiveEdges relation rows, under every size
FilterScenarios ==
    {Scenario(sz, NoFlags, Archive(S), BaseWorld, BaseWeb) :
        sz \in Sizes, S \in SubsetsUpTo(EdgeUniverse, MaxArchiveEdges)}

\* size strings that name no preset: __init__ stores any string
OtherSizes == {"tiny", "Small"}

\* the archives of at most one relation row, and the base archive, under a
\* size that names no preset
SizeScenarios ==
    {Scenario(sz, NoFlags, a, BaseWorld, BaseWeb) :
        sz \in OtherSizes,
        a \in {BaseArchive} \cup {Archive({e}) : e \in EdgeUniverse}}

InsertAt(s, i, x) == SubSeq(s, 1, i) \o <<x>> \o SubSeq(s, i + 1, Len(s))
RemoveAt(s, i) == SubSeq(s, 1, i - 1) \o SubSeq(s, i + 1, Len(s))

\* files whose names are neither an entity kind nor a one-word relation:
\* a_b, _a, a__b, tweet_has_hashtag_hashtag
OddFiles ==
    {File(<<"a", "_", "b">>, RelFile({}, UPT)),
     File(<<"_", "a">>, RelFile({}, UPT)),
     File(<<"a", "_", "_", "b">>, RelFile({}, UPT)),
     File(<<"tweet", "_", "has", "_", "hashtag", "_", "hashtag">>, RelFile({}, UPT))}

\* the directory with one more file, at any place of the listing; with one
\* file missing; with a repeated tweet_id
LoadArchives ==
    {InsertAt(BaseArchive, i, f) : i \in 0..Len(BaseArchive), f \in OddFiles}
    \cup {RemoveAt(BaseArchive, i) : i \in DOMAIN BaseArchive}
    \cup {[BaseArchive EXCEPT ![1] = File(<<"tweet">>, TweetFile(ks))] :
            ks \in {<<101, 102, 101>>, <<101, 101, 101>>, <<101>>}}
    \cup {[BaseArchive EXCEPT ![1] = File(<<"tweet">>, HydratedTweetFile(ks))] :
            ks \in {<<101, 102, 103>>, <<101, 102, 101>>}}

LoadScenarios ==
    {Scenario(sz, NoFlags, a, BaseWorld, BaseWeb) :
        sz \in {"large", "small"}, a \in LoadArchives}

Mention(id) == [id |-> id, username |-> id + 50]

UserTables ==
    {<<BaseUser(401), BaseUser(402)>>, <<BaseUser(402), BaseUser(401)>>,
     <<BaseUser(402)>>, <<BaseUser(401), BaseUser(401)>>}

\* authors, the user table and the mention lists
JoinWorlds ==
    {[BaseWorld EXCEPT !.users = us,
                       !.tweets[1].author_id = a1,
                       !.tweets[2].author_id = a2,
                       !.tweets[3].author_id = a3,
                       !.tweets[1].mentions = m1,
                       !.tweets[2].mentions = m2,
                       !.tweet_columns = @ \cup (IF m1.na /\ m2.na THEN {}
                                                 ELSE {"entities.mentions"})] :
        us \in UserTables, a1 \in {401, 403, NA}, a2 \in {401, 402}, a3 \in {402, 403},
        m1 \in {NaList, List(<<>>), List(<<Mention(402)>>),
                List(<<Mention(402), Mention(401)>>),
                List(<<Mention(402), Mention(402)>>), List(<<Mention(403)>>)},
        m2 \in {NaList, List(<<Mention(401)>>)}}

JoinScenarios ==
    {Scenario(sz, [NoFlags EXCEPT !.mentions = f], BaseArchive, tw, BaseWeb) :
        sz \in {"large", "small"}, f \in BOOLEAN, tw \in JoinWorlds}

\* the columns of the hydrated tables: with and without author_id, a
\* mention list, a pinned tweet
ColumnWorlds ==
    {[BaseWorld EXCEPT !.tweets[1].mentions = m,
                       !.users[1].pinned_tweet_id = p,
                       !.tweet_columns = cs \cup (IF m.na THEN {} ELSE {"entities.mentions"}),
                       !.user_columns = @ \cup (IF p = NA THEN {} ELSE {"pinned_tweet_id"})] :
        cs \in {{"tweet_id", "text"}, BaseTweetColumns},
        m \in {NaList, List(<<Mention(402)>>)},
        p \in {NA, 101, 104}}

ColumnScenarios ==
    {Scenario(sz, [NoFlags EXCEPT !.mentions = f], BaseArchive, tw, BaseWeb) :
        sz \in {"large", "small"}, f \in BOOLEAN, tw \in ColumnWorlds}

Tag(t) == [tag |-> t]

\* the hashtag lists of the tweets and of the users
HashtagWorlds ==
    {[BaseWorld EXCEPT !.tweets[1].hashtags = h1,
                       !.tweets[2].hashtags = h2,
                       !.users[1].desc_hashtags = g1,
                       !.tweet_columns = @ \cup (IF h1.na /\ h2.na THEN {}
                                                 ELSE {"entities.hashtags"}),
                       !.user_columns = @ \cup (IF g1.na THEN {}
                                                ELSE {"entities.description.hashtags"})] :
        h1 \in {NaList, List(<<>>), List(<<Tag(501)>>), List(<<Tag(501), Tag(502)>>),
                List(<<Tag(501), Tag(501)>>)},
        h2 \in {NaList, List(<<Tag(501)>>), List(<<Tag(502)>>)},
        g1 \in {NaList, List(<<Tag(501)>>), List(<<Tag(503)>>),
                List(<<Tag(502), Tag(502)>>)}}

HashtagScenarios ==
    {Scenario(sz, [NoFlags EXCEPT !.hashtags = f], BaseArchive, tw, BaseWeb) :
        sz \in {"large", "small"}, f \in BOOLEAN, tw \in HashtagWorlds}

\* the media of the tweets, and a profile picture
MediaWorlds ==
    {[BaseWorld EXCEPT !.media = ms,
                       !.tweets[1].media_keys = k1,
                       !.users[1].profile_image_url = p,
                       !.tweet_columns = @ \cup (IF k1.na THEN {}
                                                 ELSE {"attachments.media_keys"}),
                       !.user_columns = @ \cup (IF p = NA THEN {}
                                                ELSE {"profile_image_url"})] :
        p \in {NA, 701},
        ms \in {<<>>, <<Media(801, "photo", 700)>>,
                <<Media(801, "video", 700), Media(802, "photo", 701)>>,
                <<Media(801, "photo", 700), Media(802, "video", 701)>>,
                <<Media(801, "photo", 700), Media(802, "animated gif", 701)>>},
        k1 \in {NaList, List(<<801>>), List(<<802>>), List(<<801, 802>>)}}

MediaScenarios ==
    {Scenario(sz, [NoFlags EXCEPT !.images = f], BaseArchive, tw, BaseWeb) :
        sz \in {"large", "small"}, f \in BOOLEAN, tw \in MediaWorlds}

Url(expanded, short) == [expanded_url |-> expanded, url |-> short]

\* the URL lists of the tweets and of the users, and the profile pictures
UrlWorlds ==
    {[BaseWorld EXCEPT !.tweets[1].urls = t1,
                       !.tweets[2].urls = t2,
                       !.users[1].url_urls = u1,
                       !.users[1].desc_urls = d1,
                       !.users[1].profile_image_url = p,
                       !.users[2].profile_image_url = p,
                       !.tweet_columns = @ \cup (IF t1.na /\ t2.na THEN {}
                                                 ELSE {"entities.urls"}),
                       !.user_columns = @ \cup (IF u1.na THEN {} ELSE {"entities.url.urls"})
                                          \cup (IF d1.na THEN {}
                                                ELSE {"entities.description.urls"})
                                          \cup (IF p = NA THEN {}
                                                ELSE {"profile_image_url"})] :
        t1 \in {NaList, List(<<>>), List(<<Url(600, 900)>>),
                List(<<Url(600, 900), Url(600, 901)>>),
                List(<<Url(601, 900), Url(NA, 602)>>), List(<<Url(NA, NA)>>)},
        t2 \in {NaList, List(<<Url(600, 900)>>)},
        u1 \in {NaList, List(<<Url(610, 902)>>)},
        d1 \in {NaList, List(<<Url(610, 902), Url(603, 903)>>)},
        p \in {NA, 701}}

\* what the web serves: whether page 600 and page 610 parse, and the top image
Webs ==
    {[BaseWeb EXCEPT !.articles[600] = a, !.articles[610] = b] :
        a \in {Page(FALSE, 1, 1, NA), Page(FALSE, 1, 1, 700), Page(TRUE, NA, NA, NA),
               HangingPage("download"), HangingPage("parse")},
        b \in {Page(FALSE, 1, 1, NA), Page(FALSE, NA, 1, NA)}}

UrlScenarios ==
    {Scenario("large", [NoFlags EXCEPT !.articles = fa, !.images = fi], BaseArchive, tw, w) :
        fa \in BOOLEAN, fi \in BOOLEAN, tw \in UrlWorlds, w \in Webs}

Place(id) == [index |-> 0, place_id |-> id]
Poll(id) == [index |-> 0, poll_id |-> id]

\* the places and the polls of the tweets
PlacePollWorlds ==
    {[BaseWorld EXCEPT !.places = ps,
                       !.polls = qs,
                       !.tweets[1].place_id = g,
                       !.tweets[1].poll_ids = q,
                       !.tweet_columns = @ \cup (IF g = NA THEN {} ELSE {"geo.place_id"})
                                           \cup (IF q.na THEN {}
                                                 ELSE {"attachments.poll_ids"})] :
        ps \in {<<>>, <<Place(811), Place(812)>>},
        qs \in {<<>>, <<Poll(821)>>},
        g \in {NA, 812},
        q \in {NaList, List(<<821>>)}}

PlacePollScenarios ==
    {Scenario("large", [NoFlags EXCEPT !.places = fp, !.polls = fq], BaseArchive, tw, BaseWeb) :
        fp \in BOOLEAN, fq \in BOOLEAN, tw \in PlacePollWorlds}

Scenarios ==
    FilterScenarios \cup LoadScenarios \cup ColumnScenarios \cup JoinScenarios \cup HashtagScenarios \cup MediaScenarios
    \cup UrlScenarios \cup PlacePollScenarios \cup SizeScenarios

Init ==
    /\ pc = CompileOrder[1]
    /\ \E sc \in Scenarios :
          /\ size = sc.size
          /\ flags = sc.flags
          /\ archive = sc.archive
          /\ twitter = sc.twitter
          /\ web = sc.web
    /\ nodes = Empty
    /\ rels = Empty
    /\ pool = NoPool
    /\ stages = <<>>
    /\ calls = <<>>

LoadDataset ==
    /\ pc = "load"
    /\ stages' = Append(stages, "load")
    /\ LET res == LoadDatasetFrom(archive)
       IN  /\ nodes' = res.nodes
           /\ rels' = res.rels
           /\ pc' = IF res.ok THEN After("load") ELSE "error"
    /\ UNCHANGED <<size, flags, archive, twitter, calls, web, pool>>

Shrink ==
    /\ pc = "shrink"
    /\ stages' = Append(stages, "shrink")
    /\ IF (size = "small" \/ size = "medium") /\ ~ShrinkNeeds(nodes, rels)
       THEN /\ pc' = "error"
            /\ UNCHANGED <<nodes, rels>>
       ELSE LET shrunk == ShrinkDataset(nodes, rels, size)
            IN  /\ pc' = After("shrink")
                /\ nodes' = shrunk.nodes
                /\ rels' = shrunk.rels
    /\ UNCHANGED <<size, flags, archive, twitter, calls, web, pool>>

RehydrateStage ==
    /\ pc = "rehydrate"
    /\ stages' = Append(stages, "rehydrate")
    /\ LET res == Rehydrate(nodes, flags, twitter)
       IN  /\ nodes' = res.nodes
           /\ calls' = calls \o res.asked
           /\ pc' = IF res.ok THEN After("rehydrate") ELSE "error"
    /\ UNCHANGED <<size, flags, archive, twitter, web, rels, pool>>

ExtractNodesStage ==
    /\ pc = "extract_nodes"
    /\ stages' = Append(stages, "extract_nodes")
    /\ nodes' = ExtractNodes(nodes, flags)
    /\ pc' = After("extract_nodes")
    /\ UNCHANGED <<size, flags, archive, twitter, calls, web, rels, pool>>

ExtractRelationsStage ==
    /\ pc = "extract_relations"
    /\ stages' = Append(stages, "extract_relations")
    /\ LET res == ExtractRelations(nodes, rels, flags)
       IN  /\ rels' = res.rels
           /\ pc' = IF res.ok THEN After("extract_relations") ELSE "error"
    /\ UNCHANGED <<size, flags, archive, twitter, calls, web, nodes, pool>>

\* _extract_articles up to the start of the pool
ExtractArticlesStage ==
    /\ pc = "extract_articles"
    /\ stages' = Append(stages, "extract_articles")
    /\ IF ~flags.articles
       THEN pc' = After("extract_articles") /\ pool' = pool
       ELSE IF CandidatesFail(nodes)
       THEN pc' = "error" /\ pool' = pool
       ELSE /\ pc' = "articles_pool"
            /\ pool' = [urls |-> ArticleCandidates(nodes),
                        todo |-> DOMAIN ArticleCandidates(nodes), buffer |-> <<>>]
    /\ UNCHANGED <<size, flags, archive, twitter, calls, web, nodes, rels>>

\* the loop storing each result in the article table as it arrives
ArticleResultWritesThrough ==
    /\ pc = "articles_pool"
    /\ \E i \in pool.todo :
          /\ Returns(pool.urls[i], web.articles)
          /\ pool' = [pool EXCEPT !.todo = @ \ {i},
                                  !.buffer = @ \o ProcessArticleUrl(pool.urls[i],
                                                                    web.articles)]
    /\ nodes' = Put(nodes, "article", ArticleFrame(pool'.buffer))
    /\ UNCHANGED <<pc, size, flags, archive, twitter, calls, web, rels, stages>>

\* imap_unordered hands over the result of any item whose worker returns
ArticleResult ==
    /\ pc = "articles_pool"
    /\ \E i \in pool.todo :
          /\ Returns(pool.urls[i], web.articles)
          /\ pool' = [pool EXCEPT !.todo = @ \ {i},
                                  !.buffer = @ \o ProcessArticleUrl(pool.urls[i],
                                                                    web.articles)]
    /\ UNCHANGED <<pc, size, flags, archive, twitter, calls, web, nodes, rels, stages>>

\* the pool has drained: the rest of _extract_articles
ArticlesMerge ==
    /\ pc = "articles_pool"
    /\ pool.todo = {}
    /\ LET res == MergeArticles(nodes, rels, flags, pool.buffer)
       IN  /\ nodes' = res.nodes
           /\ rels' = res.rels
           /\ pc' = IF res.ok THEN After("extract_articles") ELSE "error"
    /\ pool' = NoPool
    /\ UNCHANGED <<size, flags, archive, twitter, calls, web, stages>>

ExtractImagesStage ==
    /\ pc = "extract_images"
    /\ stages' = Append(stages, "extract_images")
    /\ IF ~flags.images
       THEN pc' = After("extract_images") /\ pool' = pool
       ELSE IF ImageCandidatesFail(nodes)
       THEN pc' = "error" /\ pool' = pool
       ELSE /\ pc' = "images_pool"
            /\ pool' = [urls |-> ImageCandidates(nodes),
                        todo |-> DOMAIN ImageCandidates(nodes), buffer |-> <<>>]
    /\ UNCHANGED <<size, flags, archive, twitter, calls, web, nodes, rels>>

ImageResult ==
    /\ pc = "images_pool"
    /\ \E i \in pool.todo :
          pool' = [pool EXCEPT !.todo = @ \ {i},
                               !.buffer = @ \o ProcessImageUrl(pool.urls[i], web.images)]
    /\ UNCHANGED <<pc, size, flags, archive, twitter, calls, web, nodes, rels, stages>>

ImagesMerge ==
    /\ pc = "images_pool"
    /\ pool.todo = {}
    /\ LET res == MergeImages(nodes, rels, pool.buffer)
       IN  /\ nodes' = res.nodes
           /\ rels' = res.rels
           /\ pc' = IF res.ok THEN After("extract_images") ELSE "error"
    /\ pool' = NoPool
    /\ UNCHANGED <<size, flags, archive, twitter, calls, web, stages>>

FilterNodeFeaturesStage ==
    /\ pc = "filter_node_features"
    /\ stages' = Append(stages, "filter_node_features")
    /\ nodes' = FilterNodeFeatures(nodes)
    /\ pc' = After("filter_node_features")
    /\ UNCHANGED <<size, flags, archive, twitter, calls, web, rels, pool>>

RemoveAuxilliariesStage ==
    /\ pc = "remove_auxilliaries"
    /\ stages' = Append(stages, "remove_auxilliaries")
    /\ nodes' = RemoveAuxNodes(nodes)
    /\ rels' = RemoveAuxRels(rels)
    /\ pc' = After("remove_auxilliaries")
    /\ UNCHANGED <<size, flags, archive, twitter, calls, web, pool>>

DumpToCsvStage ==
    /\ pc = "dump_to_csv"
    /\ stages' = Append(stages, "dump_to_csv")
    /\ pc' = IF DumpFails(nodes, rels) THEN "error" ELSE After("dump_to_csv")
    /\ UNCHANGED <<size, flags, archive, twitter, calls, web, nodes, rels, pool>>

Next ==
    \/ LoadDataset
    \/ Shrink
    \/ RehydrateStage
    \/ ExtractNodesStage
    \/ ExtractRelationsStage
    \/ ExtractArticlesStage
    \/ ArticleResult
    \/ ArticlesMerge
    \/ ExtractImagesStage
    \/ ImageResult
    \/ ImagesMerge
    \/ FilterNodeFeaturesStage
    \/ RemoveAuxilliariesStage
    \/ DumpToCsvStage

Spec == Init /\ [][Next]_vars

\* the compilations that use the worker pools: those whose URLs come from the
\* tweets alone, and those that download the tweets' images
PoolScenarios ==
    {sc \in UrlScenarios : /\ sc.twitter.tweets[2].urls.na
                           /\ sc.twitter.users[1].desc_urls.na}
    \cup {sc \in MediaScenarios : sc.size = "large" /\ sc.flags.images}

PoolInit ==
    /\ pc = CompileOrder[1]
    /\ \E sc \in PoolScenarios :
          /\ size = sc.size
          /\ flags = sc.flags
          /\ archive = sc.archive
          /\ twitter = sc.twitter
          /\ web = sc.web
    /\ nodes = Empty
    /\ rels = Empty
    /\ pool = NoPool
    /\ stages = <<>>
    /\ calls = <<>>

\* the pool's worker processes and the loop that reads their results keep
\* running: a result that is ready is eventually handed over, and the stage
\* goes on once the pool has drained
PoolSpec ==
    PoolInit /\ [][Next]_vars /\ WF_vars(ArticleResult) /\ WF_vars(ArticlesMerge)

\* ------------------------------------------------------------------ claims

\* the tables _load_dataset reads from the archive
Loaded == LoadDatasetFrom(archive)

\* the natural-key column of an entity kind of the archive
KeyColumn(kind) ==
    CASE kind = "tweet" -> "tweet_id"
      [] kind = "user" -> "user_id"
      [] OTHER -> "id"

Keys(df, c) == Range(Column(df, c))

RowSet(df) == Range(df.rows)

Filtering == size = "small" \/ size = "medium"

\* the filter has just run on the loaded archive
JustShrunk == pc = "rehydrate" /\ stages = <<"load", "shrink">>

\* the positions of a table: 0 .. row count - 1
Positions(df) == 0..(Len(df.rows) - 1)

\* every src is a row position of the source kind's table and every tgt a row
\* position of the target kind's table
InRange(n, r, k) ==
    /\ k[1] \in DOMAIN n
    /\ k[3] \in DOMAIN n
    /\ \A i \in DOMAIN r[k].rows :
          /\ r[k].rows[i].src \in Positions(n[k[1]])
          /\ r[k].rows[i].tgt \in Positions(n[k[3]])

\* C1: once the tables are handed to the writer (_remove_auxilliaries has run,
\* _dump_to_csv reads them) every retained relation's src and tgt values are
\* row positions of the source and target kinds' tables.
C1_ReferentialIntegrity ==
    pc \in {"dump_to_csv", "done"} => \A k \in DOMAIN rels : InRange(nodes, rels, k)

\* C2: after the filter ran with size small or medium, every row of every
\* relation table refers, by natural key, to a row still present in the
\* filtered source and target tables.
C2_NoDanglingAfterShrink ==
    (JustShrunk /\ Filtering) =>
        \A k \in DOMAIN rels : \A i \in DOMAIN rels[k].rows :
            /\ rels[k].rows[i].src \in Keys(nodes[k[1]], KeyColumn(k[1]))
            /\ rels[k].rows[i].tgt \in Keys(nodes[k[3]], KeyColumn(k[3]))

\* C3: applying the filter again, with the same size, to the tables the filter
\* left changes no entity table and no relation table.
C3_ShrinkIdempotent ==
    JustShrunk => ShrinkDataset(nodes, rels, size) = [nodes |-> nodes, rels |-> rels]

C3_Witness ==
    /\ JustShrunk
    /\ size = "small"
    /\ Len(rels[TDC].rows) = 1
    /\ Len(Loaded.rels[TDC].rows) = 2
    /\ Len(nodes["user"].rows) = 1

TablesWithin(a, b) ==
    /\ \A k \in DOMAIN a.nodes : RowSet(a.nodes[k]) \subseteq RowSet(b.nodes[k])
    /\ \A k \in DOMAIN a.rels : RowSet(a.rels[k]) \subseteq RowSet(b.rels[k])

\* C4: on every loaded dataset, every table the filter leaves under small is
\* a subset of the table it leaves under medium, which is a subset of the
\* loaded table; and the tables the run's own filter left are subsets of the
\* loaded tables.  (A dataset lacking one of the files the filter reads makes
\* the filter raise instead.)
C4_ShrinkMonotone ==
    (JustShrunk /\ ShrinkNeeds(Loaded.nodes, Loaded.rels)) =>
        LET small == ShrinkDataset(Loaded.nodes, Loaded.rels, "small")
            medium == ShrinkDataset(Loaded.nodes, Loaded.rels, "medium")
        IN  /\ TablesWithin(small, medium)
            /\ TablesWithin(medium, Loaded)
            /\ TablesWithin([nodes |-> nodes, rels |-> rels], Loaded)
            /\ size = "small" => TablesWithin([nodes |-> nodes, rels |-> rels], medium)
            /\ size = "medium" => TablesWithin(small, [nodes |-> nodes, rels |-> rels])

\* a dataset where small keeps strictly less than medium, and medium strictly
\* less than the archive
C4_Witness ==
    /\ JustShrunk
    /\ size = "medium"
    /\ Len(rels[TDC].rows) = 2
    /\ Len(Loaded.rels[TDC].rows) = 3
    /\ Len(ShrinkDataset(Loaded.nodes, Loaded.rels, "small").rels[TDC].rows) = 1

\* the rows of a seed relation whose relevance is strictly above t
Above(df, t) == SelectSeq(df.rows, LAMBDA e : e.relevance > t)

\* C5: each seed relation keeps exactly the rows with relevance strictly above
\* the threshold (0.8 for small, 0.75 for medium, the same for both seeds);
\* the tweet, claim and article tables are exactly the loaded rows whose key is
\* a source (tweet, article) or a target (claim) of a surviving seed edge.
C5_SeedFilterExact ==
    (JustShrunk /\ Filtering) =>
        LET t == IF size = "small" THEN 80 ELSE 75
            tdc == Above(Loaded.rels[TDC], t)
            adc == Above(Loaded.rels[ADC], t)
        IN  /\ rels[TDC].rows = tdc
            /\ rels[ADC].rows = adc
            /\ nodes["tweet"].rows =
                   SelectSeq(Loaded.nodes["tweet"].rows,
                             LAMBDA x : \E i \in DOMAIN tdc : tdc[i].src = x.tweet_id)
            /\ nodes["claim"].rows =
                   SelectSeq(Loaded.nodes["claim"].rows,
                             LAMBDA x : \E i \in DOMAIN tdc : tdc[i].tgt = x.id)
            /\ nodes["article"].rows =
                   SelectSeq(Loaded.nodes["article"].rows,
                             LAMBDA x : \E i \in DOMAIN adc : adc[i].src = x.id)

\* an edge exactly at the threshold is removed while an edge above it stays
C5_Witness ==
    /\ JustShrunk
    /\ size = "small"
    /\ \E i \in DOMAIN Loaded.rels[TDC].rows : Loaded.rels[TDC].rows[i].relevance = 80
    /\ Len(rels[TDC].rows) = 1
    /\ Len(nodes["tweet"].rows) = 1
    /\ Len(nodes["claim"].rows) = 1
    /\ Len(rels[ADC].rows) = 1

\* C6: a loaded user is retained exactly when it is the source of a surviving
\* posted edge or the target of a surviving tweet-mentions-user edge, where a
\* posted / mentions edge survives exactly when its tweet is a retained tweet.
C6_UsersUnion ==
    (JustShrunk /\ Filtering) =>
        LET kept == Keys(nodes["tweet"], "tweet_id")
            posted == SelectSeq(Loaded.rels[UPT].rows, LAMBDA e : e.tgt \in kept)
            mentions == SelectSeq(Loaded.rels[TMU].rows, LAMBDA e : e.src \in kept)
        IN  /\ rels[UPT].rows = posted
            /\ rels[TMU].rows = mentions
            /\ nodes["user"].rows =
                   SelectSeq(Loaded.nodes["user"].rows,
                             LAMBDA u : \/ \E i \in DOMAIN posted : posted[i].src = u.user_id
                                        \/ \E i \in DOMAIN mentions : mentions[i].tgt = u.user_id)

\* one user is kept for having posted only, the other was mentioned by a
\* dropped tweet only and goes
C6_Witness ==
    /\ JustShrunk
    /\ size = "small"
    /\ Len(Loaded.rels[TMU].rows) = 1
    /\ Len(rels[TMU].rows) = 0
    /\ Len(rels[UPT].rows) = 1
    /\ Len(nodes["user"].rows) = 1

IsPrefix(a, b) == Len(a) <= Len(b) /\ \A i \in DOMAIN a : a[i] = b[i]

\* C7 as stated: the filter never runs before hydration and relation
\* extraction have run.
C7_FilterAfterExtraction ==
    \A i \in DOMAIN stages :
        stages[i] = "shrink" =>
            /\ \E j \in 1..(i - 1) : stages[j] = "rehydrate"
            /\ \E j \in 1..(i - 1) : stages[j] = "extract_relations"

\* C7, amended: the stages run one at a time in the order load, subgraph
\* filter, hydrator, node and relation extraction, article and image
\* enrichment, projector; the filter runs before hydration and extraction.
C7_StageOrder ==
    IsPrefix(stages, <<"load", "shrink", "rehydrate", "extract_nodes", "extract_relations",
                       "extract_articles", "extract_images", "filter_node_features",
                       "remove_auxilliaries", "dump_to_csv">>)

\* the filter removed rows, hydration and extraction ran on what it left, and
\* the run reached the projector
C7_Witness ==
    /\ size = "small"
    /\ Len(stages) = 10
    /\ Len(nodes["tweet"].rows) = 1

\* relation extraction has just run
JustExtracted ==
    pc = "extract_articles" /\ stages[Len(stages)] = "extract_relations"

\* the values a list cell refers to (an empty list explodes to one NaN)
RefSet(cell, Extract(_)) ==
    IF cell.na THEN {}
    ELSE IF cell.items = <<>> THEN {NA}
    ELSE {Extract(cell.items[j]) : j \in DOMAIN cell.items}

ScalarRef(v) == IF v = NA THEN {} ELSE {v}

\* every row of the relation joins the row at position l of `left` with the
\* row at position t of `right`, whose key is one of the references of the
\* left row; the left position is the row's src, or its tgt when `swapped`
PositionsJoin(rel, left, right, swapped, Refs(_), keycol) ==
    \A i \in DOMAIN rel.rows :
        LET l == IF swapped THEN rel.rows[i].tgt ELSE rel.rows[i].src
            t == IF swapped THEN rel.rows[i].src ELSE rel.rows[i].tgt
        IN  /\ l \in Positions(left)
            /\ t \in Positions(right)
            /\ right.rows[t + 1][keycol] \in Refs(left.rows[l + 1])

\* C8: every index relation extraction emits, and every index of the
\* article-to-top-image join of the enrichment, is the 0-based position of
\* the referenced row in its entity table as the table stands then.
C8_IndicesArePositions ==
    /\ JustExtracted =>
        LET tweet == nodes["tweet"]
            user == nodes["user"]
            tcols == tweet.columns
            ucols == user.columns
            userUrls == flags.images /\ ("entities.url.urls" \in ucols
                                         \/ "entities.description.urls" \in ucols)
        IN  /\ PositionsJoin(rels[UPT], tweet, user, TRUE,
                             LAMBDA x : ScalarRef(x.author_id), "user_id")
            /\ (flags.mentions /\ "entities.mentions" \in tcols) =>
                   PositionsJoin(rels[TMU], tweet, user, FALSE,
                                 LAMBDA x : RefSet(x.mentions, ExtractMention), "user_id")
            /\ (flags.mentions /\ "entities.description.mentions" \in ucols) =>
                   PositionsJoin(rels[UMU], user, user, FALSE,
                                 LAMBDA x : RefSet(x.desc_mentions, ExtractUsername),
                                 "username")
            /\ "pinned_tweet_id" \in ucols =>
                   PositionsJoin(rels[UHPT], user, tweet, FALSE,
                                 LAMBDA x : ScalarRef(x.pinned_tweet_id), "tweet_id")
            /\ (flags.places /\ "geo.place_id" \in tcols) =>
                   PositionsJoin(rels[TLP], tweet, nodes["place"], FALSE,
                                 LAMBDA x : ScalarRef(x.place_id), "place_id")
            /\ (flags.polls /\ "attachments.poll_ids" \in tcols) =>
                   PositionsJoin(rels[THP], tweet, nodes["poll"], FALSE,
                                 LAMBDA x : RefSet(x.poll_ids, Identity), "poll_id")
            /\ (flags.images /\ "attachments.media_keys" \in tcols) =>
                   PositionsJoin(rels[THI], tweet, nodes["image"], FALSE,
                                 LAMBDA x : RefSet(x.media_keys, Identity), "media_key")
            /\ (flags.hashtags /\ "entities.hashtags" \in tcols) =>
                   PositionsJoin(rels[THH], tweet, nodes["hashtag"], FALSE,
                                 LAMBDA x : RefSet(x.hashtags, ExtractHashtag), "tag")
            /\ (flags.hashtags /\ "entities.description.hashtags" \in ucols) =>
                   PositionsJoin(rels[UHH], user, nodes["hashtag"], FALSE,
                                 LAMBDA x : RefSet(x.desc_hashtags, ExtractHashtag), "tag")
            /\ (~userUrls /\ (flags.articles \/ flags.images) /\ "entities.urls" \in tcols) =>
                   PositionsJoin(rels[THU], tweet, nodes["url"], FALSE,
                                 LAMBDA x : RefSet(x.urls, ExtractUrl), "url")
            /\ userUrls =>
                   PositionsJoin(rels[UserUrlKey], user, nodes["url"], FALSE,
                                 LAMBDA x : RefSet(x.url_urls, ExtractUrl)
                                            \cup RefSet(x.desc_urls, ExtractUrl), "url")
            /\ (flags.images /\ "profile_image_url" \in ucols) =>
                   PositionsJoin(rels[UHPU], user, nodes["url"], FALSE,
                                 LAMBDA x : ScalarRef(x.profile_image_url), "url")
    /\ AHTU \in DOMAIN rels =>
           PositionsJoin(rels[AHTU], nodes["article"], nodes["url"], FALSE,
                         LAMBDA x : ScalarRef(x.top_image_url), "url")

Unique(ks) == \A i, j \in DOMAIN ks : ks[i] = ks[j] => i = j

\* C9: when relation extraction starts, the hashtag table holds every tag at
\* most once and the url table every URL at most once.
C9_KeysUniqueBeforeExtraction ==
    pc = "extract_relations" =>
        /\ "hashtag" \in DOMAIN nodes => Unique(Column(nodes["hashtag"], "tag"))
        /\ "url" \in DOMAIN nodes => Unique(Column(nodes["url"], "url"))

\* the rows of a relation that join source position s with a target row of key v
RowsFor(rel, right, keycol, swapped, s, v) ==
    {i \in DOMAIN rel.rows :
        LET l == IF swapped THEN rel.rows[i].tgt ELSE rel.rows[i].src
            t == IF swapped THEN rel.rows[i].src ELSE rel.rows[i].tgt
        IN  l = s /\ t \in Positions(right) /\ right.rows[t + 1][keycol] = v}

Occurrences(items, v) == Cardinality({j \in DOMAIN items : items[j].id = v})

\* C10: user-posted-tweet holds exactly one row (user position, tweet position)
\* for every tweet whose author_id is the key of a user row, and none for
\* another tweet; tweet-mentions-user holds exactly one row (tweet position,
\* user position) for every entry of a mention list whose id is the key of a
\* user row, and none for another entry; every hydrated tweet stays in the
\* tweet table.
C10_ReferenceJoin ==
    JustExtracted =>
        LET tweet == nodes["tweet"]
            user == nodes["user"]
            ukeys == Keys(user, "user_id")
        IN  /\ PositionsJoin(rels[UPT], tweet, user, TRUE,
                             LAMBDA x : ScalarRef(x.author_id), "user_id")
            /\ \A i \in DOMAIN tweet.rows :
                  Cardinality({k \in DOMAIN rels[UPT].rows : rels[UPT].rows[k].tgt = i - 1})
                      = IF tweet.rows[i].author_id \in ukeys THEN 1 ELSE 0
            /\ (flags.mentions /\ "entities.mentions" \in tweet.columns) =>
                  /\ PositionsJoin(rels[TMU], tweet, user, FALSE,
                                   LAMBDA x : RefSet(x.mentions, ExtractMention), "user_id")
                  /\ \A i \in DOMAIN tweet.rows : \A v \in ukeys :
                        Cardinality(RowsFor(rels[TMU], user, "user_id", FALSE, i - 1, v))
                            = IF v \in ukeys
                              THEN Occurrences(tweet.rows[i].mentions.items, v) ELSE 0
                  /\ \A i \in DOMAIN tweet.rows :
                        Cardinality({k \in DOMAIN rels[TMU].rows :
                                        rels[TMU].rows[k].src = i - 1})
                            = Cardinality({j \in DOMAIN tweet.rows[i].mentions.items :
                                              tweet.rows[i].mentions.items[j].id \in ukeys})
            /\ Len(tweet.rows) =
                   Len(ShrinkDataset(Loaded.nodes, Loaded.rels, size).nodes["tweet"].rows)

\* _extract_relations has just run, to its end or to an exception
RelationsRan ==
    /\ stages # <<>>
    /\ stages[Len(stages)] = "extract_relations"
    /\ pc \in {"extract_articles", "error"}

\* the relations as _extract_relations found them
RelsBefore == ShrinkDataset(Loaded.nodes, Loaded.rels, size).rels

\* the triples _extract_relations fills from one column of one table: the
\* table, the column, whether the flags enable it, and the target table
ColumnTriples ==
    {[rel |-> UPT, table |-> "tweet", column |-> "author_id", on |-> TRUE, target |-> "user"],
     [rel |-> TMU, table |-> "tweet", column |-> "entities.mentions",
      on |-> flags.mentions, target |-> "user"],
     [rel |-> UMU, table |-> "user", column |-> "entities.description.mentions",
      on |-> flags.mentions, target |-> "user"],
     [rel |-> UHPT, table |-> "user", column |-> "pinned_tweet_id", on |-> TRUE,
      target |-> "tweet"],
     [rel |-> TLP, table |-> "tweet", column |-> "geo.place_id", on |-> flags.places,
      target |-> "place"],
     [rel |-> THP, table |-> "tweet", column |-> "attachments.poll_ids",
      on |-> flags.polls, target |-> "poll"],
     [rel |-> THI, table |-> "tweet", column |-> "attachments.media_keys",
      on |-> flags.images, target |-> "image"],
     [rel |-> THH, table |-> "tweet", column |-> "entities.hashtags",
      on |-> flags.hashtags, target |-> "hashtag"],
     [rel |-> UHH, table |-> "user", column |-> "entities.description.hashtags",
      on |-> flags.hashtags, target |-> "hashtag"],
     [rel |-> UHPU, table |-> "user", column |-> "profile_image_url",
      on |-> flags.images, target |-> "url"]}

\* the relation is as it was before the stage
Untouched(rel) ==
    /\ rel \in DOMAIN rels <=> rel \in DOMAIN RelsBefore
    /\ rel \in DOMAIN rels => rels[rel] = RelsBefore[rel]

\* the relation holds joined (src, tgt) index pairs
Extracted(rel) ==
    /\ rel \in DOMAIN rels
    /\ rels[rel].columns = {"src", "tgt"}
    /\ InRange(nodes, rels, rel)

\* C11: when _extract_relations has run and every enabled triple whose source
\* column is present has its target table, the stage has raised nothing, every
\* triple whose source column is absent (author_id included) is left as it
\* was, and every enabled triple whose source column is present is extracted.
C11_AbsentColumnSkips ==
    (RelationsRan /\ \A c \in ColumnTriples :
                        (c.on /\ c.column \in nodes[c.table].columns)
                            => c.target \in DOMAIN nodes) =>
        /\ pc # "error"
        /\ \A c \in ColumnTriples :
              IF c.column \in nodes[c.table].columns
              THEN c.on => Extracted(c.rel)
              ELSE Untouched(c.rel)

\* C12: when the user table has both URL columns and the user-to-url rows are
\* extracted, the table stored under (user, has_url, url) holds the rows joined
\* from entities.url.urls followed by the rows joined from
\* entities.description.urls, duplicates kept, with index 0 .. n-1.
C12_UserUrlUnion ==
    (RelationsRan /\ pc # "error" /\ flags.images
        /\ {"entities.url.urls", "entities.description.urls"}
               \subseteq nodes["user"].columns) =>
        /\ UHU \in DOMAIN rels
        /\ rels[UHU] = PairFrame(
               Merge(Explode(nodes["user"], "url_urls"), nodes["url"], "url")
               \o Merge(Explode(nodes["user"], "desc_urls"), nodes["url"], "url"))

\* C13: a run of _rehydrate on a tweet table that has the text column calls
\* rehydrate_tweets not at all and changes no entity table and no relation
\* table; on a tweet table without it, it calls rehydrate_tweets exactly once,
\* with the tweet_id column of the tweet table.
C13_RehydrateIdempotent ==
    [][pc = "rehydrate" =>
          IF "text" \in nodes["tweet"].columns
          THEN calls' = calls /\ nodes' = nodes /\ rels' = rels /\ pc' # "error"
          ELSE calls' = Append(calls, Column(nodes["tweet"], "tweet_id"))]_vars

\* the hydrator has run on an already hydrated tweet table, and the run goes on
C13_Witness ==
    /\ stages # <<>>
    /\ stages[Len(stages)] = "rehydrate"
    /\ "text" \in nodes["tweet"].columns
    /\ Len(nodes["tweet"].rows) = 3
    /\ calls = <<>>

\* C14: relation extraction never begins on a tweet table holding a tweet_id
\* twice or on a user table holding a user_id twice: compile() has raised
\* before.
C14_DuplicateIdsAbort ==
    pc = "extract_relations" =>
        /\ Unique(Column(nodes["tweet"], "tweet_id"))
        /\ Unique(Column(nodes["user"], "user_id"))

\* _load_dataset has just run, to its end or to an exception
LoadRan == stages = <<"load">>

\* the positions of the underscores of a file name
Underscores(stem) == {i \in DOMAIN stem : stem[i] = "_"}

\* the characters of a part of a file name, as one string
RECURSIVE Text(_)
Text(syms) == IF syms = <<>> THEN "" ELSE Head(syms) \o Text(Tail(syms))

Min(S) == CHOOSE x \in S : \A y \in S : x <= y
Max(S) == CHOOSE x \in S : \A y \in S : x >= y

HasFile(kind) == \E i \in DOMAIN archive : archive[i].stem = <<kind>>

\* the tweet file holds a tweet_id twice
RepeatedTweetId ==
    \E i \in DOMAIN archive :
        /\ archive[i].stem = <<"tweet">>
        /\ ~Unique(Column(archive[i].frame, "tweet_id"))

\* C16: when the directory has no claim file, or no tweet file, or a tweet
\* file with a repeated tweet_id, _load_dataset raises and compile() runs no
\* later stage: the filter, the hydrator and the extraction never run.
C16_LoadPreconditions ==
    (stages # <<>> /\ (~HasFile("claim") \/ ~HasFile("tweet") \/ RepeatedTweetId)) =>
        /\ pc = "error"
        /\ stages = <<"load">>
        /\ calls = <<>>

\* the load has raised on a repeated tweet_id
C16_Witness ==
    /\ pc = "error"
    /\ stages = <<"load">>
    /\ HasFile("claim")
    /\ RepeatedTweetId
    /\ "tweet" \in DOMAIN nodes

\* the article worker returns a record for this URL
Succeeds(url) ==
    LET article == web.articles[StrippedUrl(url)]
    IN  /\ ~article.fails /\ article.hangs = "no"
        /\ article.title # NA /\ article.content # NA

\* the article pool has handed over the result of every item
ArticlesDrained == pc = "articles_pool" /\ pool.todo = {}

\* the records of the batch: one per URL whose worker succeeded
BatchRecords ==
    /\ Len(pool.buffer) = Cardinality({i \in DOMAIN pool.urls : Succeeds(pool.urls[i])})
    /\ \A i \in DOMAIN pool.urls :
          Succeeds(pool.urls[i]) =>
              \E j \in DOMAIN pool.buffer : pool.buffer[j].url = StrippedUrl(pool.urls[i])

\* _extract_articles has run with include_articles on a url table it can read
ArticleStageOver ==
    /\ stages # <<>>
    /\ stages[Len(stages)] = "extract_articles"
    /\ pc # "articles_pool"
    /\ flags.articles
    /\ ~CandidatesFail(nodes)

\* C17: when the pool of the article stage has drained, the batch of n URLs
\* of which k failed has given exactly n - k records, one per succeeding URL;
\* and the article stage, once over, has raised nothing.
C17_EnrichmentIsolation ==
    /\ ArticlesDrained => BatchRecords
    /\ ArticleStageOver => pc # "error"

\* the rows under (tweet, has_url, url) are the tweets' rows: the user rows
\* have not been stored there
TweetUrlRows ==
    /\ THU \in DOMAIN rels
    /\ ~(flags.images /\ ("entities.url.urls" \in nodes["user"].columns
                           \/ "entities.description.urls" \in nodes["user"].columns))

\* C18: once the article stage is over, for every tweet-to-url edge whose URL
\* the article worker turned into a record, (tweet, has_article, article)
\* holds an edge from that tweet to the position of that article's row, also
\* when the worker's normalization changed the URL.
C18_HasArticleRepointed ==
    (ArticleStageOver /\ TweetUrlRows) =>
        \A i \in DOMAIN rels[THU].rows :
            LET e == rels[THU].rows[i]
                u == nodes["url"].rows[e.tgt + 1].url
            IN  Succeeds(u) =>
                    /\ THA \in DOMAIN rels
                    /\ \E j \in DOMAIN nodes["article"].rows :
                          /\ nodes["article"].rows[j].index = StrippedUrl(u)
                          /\ \E k \in DOMAIN rels[THA].rows :
                                /\ rels[THA].rows[k].src = e.src
                                /\ rels[THA].rows[k].tgt = j - 1

\* the URL without its trailing slash and without its query string
WithoutSlashAndQuery(url) == url - (url % 10)

\* C19: every record the article workers have handed over carries a URL with
\* no trailing slash and no query string, and every item that has ended with
\* a record has the record of its URL without slash and query string.
C19_UrlNormalized ==
    pc = "articles_pool" =>
        /\ \A j \in DOMAIN pool.buffer :
              pool.buffer[j].url = WithoutSlashAndQuery(pool.buffer[j].url)
        /\ \A i \in DOMAIN pool.urls \ pool.todo :
              Succeeds(pool.urls[i]) =>
                  \E j \in DOMAIN pool.buffer :
                      pool.buffer[j].url = WithoutSlashAndQuery(pool.urls[i])

\* C20: every item of the article pool ends, with a record or discarded, so
\* a pool that has started eventually drains: this holds also when the
\* download or the parse of an item never finishes by itself.
C20_PoolDrains == (pc = "articles_pool") ~> (pc # "articles_pool")

\* the workers' results in the order of the URLs handed to the pool
InputOrderResults ==
    Flatten([i \in DOMAIN pool.urls |-> ProcessArticleUrl(pool.urls[i], web.articles)])

RecordsOf(df) == Range(df.rows)

\* the (article label, top-image URL) pairs of (article, has_top_image_url, url)
TopImagePairs(n, r) ==
    IF AHTU \notin DOMAIN r THEN {}
    ELSE {<<r[AHTU].rows[i].src, n["url"].rows[r[AHTU].rows[i].tgt + 1].url>> :
            i \in DOMAIN r[AHTU].rows}

\* the (tweet_id, article label) pairs of (tweet, has_article, article)
ArticlePairs(n, r) ==
    IF THA \notin DOMAIN r THEN {}
    ELSE {<<n["tweet"].rows[r[THA].rows[i].src + 1].tweet_id,
            n["article"].rows[r[THA].rows[i].tgt + 1].index>> :
            i \in DOMAIN r[THA].rows}

WorkersRunning == pc \in {"articles_pool", "images_pool"} /\ pool.todo # {}

\* C22: while a worker of the article pool or of the image pool is still
\* running, no step changes an entity table or a relation table; the tables
\* change only in a step taken with the pool drained.
C22_MergeAfterDrain ==
    [][WorkersRunning => nodes' = nodes /\ rels' = rels]_vars

\* a result has been put in the buffer while another item is still running
C22_Witness ==
    /\ WorkersRunning
    /\ pool.buffer # <<>>

\* _dump_to_csv has run
DumpRan == stages # <<>> /\ stages[Len(stages)] = "dump_to_csv"

\* C23: whatever the inclusion flags, once _dump_to_csv has run it has raised
\* nothing: the kinds and triples that are not in the dataset, because a
\* flag left them out, do not make it fail.
C23_DumpCompletes == DumpRan => pc # "error"

\* the url table holds a row whose url is absent
AbsentUrlRow ==
    /\ "url" \in DOMAIN nodes
    /\ "url" \in nodes["url"].columns
    /\ NA \in Range(Column(nodes["url"], "url"))

\* C24: no row of the url table has an absent url, whatever the URL entries
\* and reference lists of the hydrated tweets and users were; and the
\* selection of the article candidates, which reads that table, raises
\* nothing.
C24_AbsentFieldSkipped ==
    /\ ~AbsentUrlRow
    /\ (flags.articles /\ stages # <<>> /\ stages[Len(stages)] = "extract_articles")
          => ~(pc = "error" /\ CandidatesFail(nodes))

\* C25: when _extract_relations has returned, (tweet, has_url, url) holds the
\* rows joined from the tweets' entities.urls when that extraction is enabled
\* and the column is there, and is as it was before the stage otherwise:
\* whatever the flags and the users' URL columns.
C25_TweetUrlRowsKept ==
    (RelationsRan /\ pc # "error") =>
        IF (flags.articles \/ flags.images)
              /\ "entities.urls" \in nodes["tweet"].columns
        THEN /\ THU \in DOMAIN rels
             /\ rels[THU] = PairFrame(Merge(Explode(nodes["tweet"], "urls"),
                                            nodes["url"], "url"))
        ELSE Untouched(THU)

\* the article table is the frame of the records of this compilation
Promoted ==
    /\ ArticleStageOver
    /\ "title" \in nodes["article"].columns
    /\ nodes["article"].rows # <<>>

\* the entries of the url table whose article worker gave a record
PromotedEntries ==
    {u \in Range(Column(nodes["url"], "url")) : ~NonArticle(u) /\ Succeeds(u)}

ShrinkRan == stages = <<"load", "shrink">>

\* the (src, tgt, relevance) rows of a relation table
Triples(df) ==
    {<<df.rows[i].src, df.rows[i].tgt, df.rows[i].relevance>> : i \in DOMAIN df.rows}

\* C27: under a size that is neither 'small' nor 'medium' ('large', or a
\* string that names no preset) _shrink_dataset raises nothing and leaves
\* every entity table and every relation table as loaded; under 'small' it
\* keeps the tweet-claim rows of relevance above 0.8 and under 'medium' those
\* above 0.75.
C27_SizePresets ==
    ShrinkRan =>
        IF size \notin {"small", "medium"}
        THEN /\ pc # "error"
             /\ nodes = Loaded.nodes
             /\ rels = Loaded.rels
        ELSE pc # "error" =>
                Triples(rels[TDC]) =
                    {t \in Triples(Loaded.rels[TDC]) :
                        t[3] > (IF size = "small" THEN 80 ELSE 75)}

\* a size that names no preset has kept a tweet-claim row that both presets
\* would have dropped
C27_Witness ==
    /\ ShrinkRan
    /\ size \in OtherSizes
    /\ \E t \in Triples(rels[TDC]) : t[3] <= 75
====
